---- MODULE Spec2Model ----
(***************************************************************************)
(* Model of the adaptive interview orchestration core of Smart-Sheet:      *)
(*   - InterviewOrchestrator (src/orchestrator.py): the session state      *)
(*     machine, the question queue, the candidate profile and the          *)
(*     completion step;                                                    *)
(*   - RateLimiter (src/llm_clients.py): the sliding-window limiter used   *)
(*     by concurrent callers.                                              *)
(* Every public method of the orchestrator is one action.  The external    *)
(* collaborators (question writer, reviewer, recruiter, interviewer) are   *)
(* nondeterministic: each call draws its outcome from the outcomes the     *)
(* agent code can hand back to the orchestrator.                           *)
(***************************************************************************)
EXTENDS Integers, Sequences, FiniteSets, TLC

\* ------------------------------------------------------------------ bounds
\* Number of clock-reading operations explored in one session.
MaxClock == 4
\* Number of threads sharing one RateLimiter.
NumThreads == 2
\* Last instant of the limiter's clock.
MaxTime == 4
\* Largest max_requests and time_window a limiter is constructed with.
MaxRequests == 2
MaxWindow == 2

\* Skill labels the question writer uses, scores the reviewer gives and the
\* max_questions values a caller passes.
Skills == {"Lookup", "Pivot"}
ScoreVals == {50, 90}
MaxQuestionsValues == {1}

\* The number of questions both generation requests ask for (count=2).
count == 2

VARIABLES
    \* InterviewOrchestrator fields
    interview_state, current_questions, current_question_index, chat_history,
    assessment_results, candidate_data, interview_metadata,
    excel_skills_tested, excel_performance_by_skill, candidate_profile,
    trajectory_decisions, start_time, end_time,
    \* wall clock read by datetime.now() (0 stands for None in time fields)
    now,
    \* outcome of the most recent public call: what it returned and which
    \* collaborators it called
    last,

    \* RateLimiter fields, its clock and the position of each caller
    requests, max_requests, time_window, rl_now, pc

orchVars == <<interview_state, current_questions, current_question_index,
              chat_history, assessment_results, candidate_data,
              interview_metadata, excel_skills_tested,
              excel_performance_by_skill, candidate_profile,
              trajectory_decisions, start_time, end_time>>
rlVars == <<requests, max_requests, time_window, rl_now, pc>>
vars == <<orchVars, now, last, rlVars>>

\* ------------------------------------------------------------- data values
\* A JSON score: a number, or a value that is not a number ("85", null).
Num(v) == [num |-> TRUE, val |-> v]
NonNumeric == [num |-> FALSE, val |-> 0]

\* The batches a generation response carries: 0 .. count questions, of which
\* only the skill_target decides control flow; the skills alternate.
Batch(n) ==
    [i \in 1 .. n |-> [skill_target |-> IF i % 2 = 1 THEN "Lookup" ELSE "Pivot"]]
Batches == {Batch(n) : n \in 0 .. count}

\* What _generate_next_questions hands back: failure (the call failed, the
\* text was unparseable) or success with the list found under "questions",
\* which may be empty.
GenOutcomes ==
    {[kind |-> k, questions |-> <<>>] : k \in {"call_failed", "unparseable"}}
    \cup {[kind |-> "ok", questions |-> q] : q \in Batches}

\* What ReviewerAgent.evaluate_response hands back: failure, or a parsed
\* evaluation whose "score" may be absent or not a number.  A follow-up is
\* asked for on the low score.
Evaluations ==
    {[has_score |-> TRUE, score |-> Num(v), follow_up_needed |-> FALSE] : v \in ScoreVals}
    \cup {[has_score |-> TRUE, score |-> Num(50), follow_up_needed |-> TRUE],
          [has_score |-> TRUE, score |-> NonNumeric, follow_up_needed |-> FALSE],
          [has_score |-> FALSE, score |-> Num(0), follow_up_needed |-> FALSE]}
NoEvaluation == [has_score |-> FALSE, score |-> Num(0), follow_up_needed |-> FALSE]
EvalOutcomes ==
    {[kind |-> k, evaluation |-> NoEvaluation] : k \in {"call_failed", "unparseable"}}
    \cup {[kind |-> "ok", evaluation |-> e] : e \in Evaluations}

\* What RecruiterAgent.make_final_decision does: returns a parsed decision,
\* returns success = False (call failed / unparseable), or raises.
RecruiterOutcomes == {"ok", "call_failed", "unparseable", "raises"}

NoDecision == [decision |-> "None", overall_score |-> 0]
FallbackDecision == [decision |-> "Requires Manual Review", overall_score |-> 0]
ParsedDecision == [decision |-> "Pass", overall_score |-> 75]

\* ---------------------------------------------------------------- helpers
LastN(s, n) == IF Len(s) <= n THEN s ELSE SubSeq(s, Len(s) - n + 1, Len(s))

InSeq(x, s) == \E i \in DOMAIN s : s[i] = x
\* The append made without looking for the skill in the list.
AddIfAbsent_Always(s, x) == Append(s, x)

AddIfAbsent(s, x) == IF InSeq(x, s) THEN s ELSE Append(s, x)

RECURSIVE SumScores(_)
SumScores(s) == IF s = <<>> THEN 0 ELSE s[1].score.val + SumScores(Tail(s))

AllNumeric(s) == \A i \in DOMAIN s : s[i].score.num

\* The orchestrator's fields as one record, and the assignment of a record
\* to the fields.
Self ==
    [interview_state |-> interview_state,
     current_questions |-> current_questions,
     current_question_index |-> current_question_index,
     chat_history |-> chat_history,
     assessment_results |-> assessment_results,
     candidate_data |-> candidate_data,
     interview_metadata |-> interview_metadata,
     excel_skills_tested |-> excel_skills_tested,
     excel_performance_by_skill |-> excel_performance_by_skill,
     candidate_profile |-> candidate_profile,
     trajectory_decisions |-> trajectory_decisions,
     start_time |-> start_time,
     end_time |-> end_time]

Commit(s, l) ==
    /\ interview_state' = s.interview_state
    /\ current_questions' = s.current_questions
    /\ current_question_index' = s.current_question_index
    /\ chat_history' = s.chat_history
    /\ assessment_results' = s.assessment_results
    /\ candidate_data' = s.candidate_data
    /\ interview_metadata' = s.interview_metadata
    /\ excel_skills_tested' = s.excel_skills_tested
    /\ excel_performance_by_skill' = s.excel_performance_by_skill
    /\ candidate_profile' = s.candidate_profile
    /\ trajectory_decisions' = s.trajectory_decisions
    /\ start_time' = s.start_time
    /\ end_time' = s.end_time
    /\ last' = l

\* The dict a public method returns, with the collaborators it called and
\* the outcomes of its generation request and of its final-decision request
\* ("none" when it made none).
ResultOf(op, ok, err, complete, calls, gen, recruiter) ==
    [op |-> op, success |-> ok, error |-> err, interview_complete |-> complete,
     calls |-> calls, gen |-> gen, recruiter |-> recruiter]
Result(op, ok, err, complete, calls, gen) ==
    ResultOf(op, ok, err, complete, calls, gen, "none")

GenTag(g) == IF g.kind # "ok" THEN "failed"
             ELSE IF g.questions = <<>> THEN "empty" ELSE "ok"

\* -------------------------------------------------- profile and policy code
\* evaluation.get("score", 0)
EvalScore(ev) == IF ev.has_score THEN ev.score ELSE Num(0)

\* Hard only above a mean of 85.
PreferredDifficulty_HardAbove(recent) ==
    IF SumScores(recent) > 85 * Len(recent) THEN "Hard"
    ELSE IF SumScores(recent) >= 70 * Len(recent) THEN "Medium"
    ELSE "Easy"

\* preferred difficulty from the scores of the recent trajectory entries:
\* avg >= 85 -> Hard, avg >= 70 -> Medium, else Easy (avg = sum / len).
PreferredDifficulty(recent) ==
    IF SumScores(recent) >= 85 * Len(recent) THEN "Hard"
    ELSE IF SumScores(recent) >= 70 * Len(recent) THEN "Medium"
    ELSE "Easy"

\* The update that takes a skill scoring 80 or more off the weak lists.
UpdateCandidateProfile_ClearsWeakness(profile, perf, question, ev) ==
    LET skill == question.skill_target
        score == EvalScore(ev)
        perf1 == [perf EXCEPT ![skill] = Append(@, score)]
        p1 == [profile EXCEPT !.skill_trajectory =
                   Append(@, [skill |-> skill, score |-> score])]
        p2 == IF score.val >= 80
              THEN [p1 EXCEPT !.strengths = AddIfAbsent(@, skill),
                              !.weaknesses = SelectSeq(@, LAMBDA x : x # skill),
                              !.areas_needing_focus = SelectSeq(@, LAMBDA x : x # skill)]
              ELSE IF score.val < 60
              THEN [p1 EXCEPT !.weaknesses = AddIfAbsent(@, skill),
                              !.areas_needing_focus = AddIfAbsent(@, skill)]
              ELSE p1
        recent == LastN(p1.skill_trajectory, 3)
    IN  IF ~score.num
        THEN [raised |-> TRUE, profile |-> p1, perf |-> perf1]
        ELSE IF ~AllNumeric(recent)
        THEN [raised |-> TRUE, profile |-> p2, perf |-> perf1]
        ELSE [raised |-> FALSE,
              profile |-> [p2 EXCEPT !.preferred_difficulty = PreferredDifficulty(recent)],
              perf |-> perf1]

\* The update that looks at the score before it appends to the trajectory,
\* so that a score which is not a number leaves no entry.
UpdateCandidateProfile_ChecksScoreFirst(profile, perf, question, ev) ==
    LET skill == question.skill_target
        score == EvalScore(ev)
        perf1 == [perf EXCEPT ![skill] = Append(@, score)]
        p1 == [profile EXCEPT !.skill_trajectory =
                   Append(@, [skill |-> skill, score |-> score])]
        p2 == IF score.val >= 80
              THEN [p1 EXCEPT !.strengths = AddIfAbsent(@, skill)]
              ELSE IF score.val < 60
              THEN [p1 EXCEPT !.weaknesses = AddIfAbsent(@, skill),
                              !.areas_needing_focus = AddIfAbsent(@, skill)]
              ELSE p1
        recent == LastN(p1.skill_trajectory, 3)
    IN  IF ~score.num
        THEN [raised |-> TRUE, profile |-> profile, perf |-> perf1]
        ELSE IF ~AllNumeric(recent)
        THEN [raised |-> TRUE, profile |-> p2, perf |-> perf1]
        ELSE [raised |-> FALSE,
              profile |-> [p2 EXCEPT !.preferred_difficulty = PreferredDifficulty(recent)],
              perf |-> perf1]

\* _update_candidate_profile.  The statements run in source order, so an
\* exception (score >= 80 on a non-number, sum() over a non-number) leaves
\* the appends made before it in place; raised tells whether one occurred.
UpdateCandidateProfile(profile, perf, question, ev) ==
    LET skill == question.skill_target
        score == EvalScore(ev)
        perf1 == [perf EXCEPT ![skill] = Append(@, score)]
        p1 == [profile EXCEPT !.skill_trajectory =
                   Append(@, [skill |-> skill, score |-> score])]
        p2 == IF score.val >= 80
              THEN [p1 EXCEPT !.strengths = AddIfAbsent(@, skill)]
              ELSE IF score.val < 60
              THEN [p1 EXCEPT !.weaknesses = AddIfAbsent(@, skill),
                              !.areas_needing_focus = AddIfAbsent(@, skill)]
              ELSE p1
        recent == LastN(p1.skill_trajectory, 3)
    IN  IF ~score.num
        THEN [raised |-> TRUE, profile |-> p1, perf |-> perf1]
        ELSE IF ~AllNumeric(recent)
        THEN [raised |-> TRUE, profile |-> p2, perf |-> perf1]
        ELSE [raised |-> FALSE,
              profile |-> [p2 EXCEPT !.preferred_difficulty = PreferredDifficulty(recent)],
              perf |-> perf1]

\* The trend taken over the last four entries instead of the last three.
AnalyzePerformanceTrend_WindowOfFour(profile) ==
    LET traj == profile.skill_trajectory
        recent == LastN(traj, 4)
    IN  IF Len(traj) < 2 THEN "insufficient_data"
        ELSE IF ~AllNumeric(recent) THEN "raise"
        ELSE IF recent[Len(recent)].score.val > recent[1].score.val + 10 THEN "improving"
        ELSE IF recent[Len(recent)].score.val < recent[1].score.val - 10 THEN "declining"
        ELSE "stable"

\* _analyze_performance_trend; "raise" when the comparison or the sum meets
\* a non-numeric score.
AnalyzePerformanceTrend(profile) ==
    LET traj == profile.skill_trajectory
        recent == LastN(traj, 3)
    IN  IF Len(traj) < 2 THEN "insufficient_data"
        ELSE IF ~AllNumeric(recent) THEN "raise"
        ELSE IF recent[Len(recent)].score.val > recent[1].score.val + 10 THEN "improving"
        ELSE IF recent[Len(recent)].score.val < recent[1].score.val - 10 THEN "declining"
        ELSE "stable"

SeqMax(s) == CHOOSE m \in {s[i].evaluation.score.val : i \in DOMAIN s} :
                 \A i \in DOMAIN s : s[i].evaluation.score.val <= m
SeqMin(s) == CHOOSE m \in {s[i].evaluation.score.val : i \in DOMAIN s} :
                 \A i \in DOMAIN s : s[i].evaluation.score.val >= m

target_skills == 5

\* The decision with its floor at 3 records instead of 4.
ShouldContinue_FloorOfThree(results, max_questions, skills_tested) ==
    LET recent == LastN(results, 4)
    IN  IF Len(results) < 3
        THEN [continue |-> TRUE, reason |-> "Need minimum assessment coverage", raised |-> FALSE]
        ELSE IF Len(results) >= max_questions
        THEN [continue |-> FALSE, reason |-> "Reached maximum question limit", raised |-> FALSE]
        ELSE IF Len(results) >= 6
                /\ \E i \in DOMAIN recent :
                       ~recent[i].evaluation.has_score \/ ~recent[i].evaluation.score.num
        THEN [continue |-> FALSE, reason |-> "exception", raised |-> TRUE]
        ELSE IF Len(results) >= 6 /\ SeqMax(recent) - SeqMin(recent) < 15
        THEN [continue |-> FALSE, reason |-> "Performance level established", raised |-> FALSE]
        ELSE IF Cardinality(skills_tested) >= target_skills
        THEN [continue |-> FALSE, reason |-> "Adequate skill coverage achieved", raised |-> FALSE]
        ELSE [continue |-> TRUE, reason |-> "Continue adaptive assessment", raised |-> FALSE]

\* _should_continue_adaptive_assessment.  r["evaluation"]["score"] raises
\* when an evaluation carries no score, max()/min() when one is no number.
ShouldContinue(results, max_questions, skills_tested) ==
    LET recent == LastN(results, 4)
    IN  IF Len(results) < 4
        THEN [continue |-> TRUE, reason |-> "Need minimum assessment coverage", raised |-> FALSE]
        ELSE IF Len(results) >= max_questions
        THEN [continue |-> FALSE, reason |-> "Reached maximum question limit", raised |-> FALSE]
        ELSE IF Len(results) >= 6
                /\ \E i \in DOMAIN recent :
                       ~recent[i].evaluation.has_score \/ ~recent[i].evaluation.score.num
        THEN [continue |-> FALSE, reason |-> "exception", raised |-> TRUE]
        ELSE IF Len(results) >= 6 /\ SeqMax(recent) - SeqMin(recent) < 15
        THEN [continue |-> FALSE, reason |-> "Performance level established", raised |-> FALSE]
        ELSE IF Cardinality(skills_tested) >= target_skills
        THEN [continue |-> FALSE, reason |-> "Adequate skill coverage achieved", raised |-> FALSE]
        ELSE [continue |-> TRUE, reason |-> "Continue adaptive assessment", raised |-> FALSE]

\* The limit read as twice the candidate's max_questions.
MaxQuestionsOf_Doubled(cd) == IF cd.present THEN 2 * cd.max_questions ELSE 10

\* The limit read one too high.
MaxQuestionsOf_OneMore(cd) == IF cd.present THEN cd.max_questions + 1 ELSE 10

\* candidate_data.get("max_questions", 10)
MaxQuestionsOf(cd) == IF cd.present THEN cd.max_questions ELSE 10

\* ---------------------------------------------------------------- actions
\* Orchestrator actions leave the RateLimiter alone.
Tick(t) == now' = t /\ UNCHANGED rlVars

\* start_interview.  No check of interview_state precedes the assignments.
\* The call is made before the instant limit, with max_questions drawn from
\* MaxQuestions and the generation response from Gens.
StartInterviewWith(limit, MaxQuestions, Gens) ==
    /\ now < limit
    /\ Tick(now + 1)
    /\ \E m \in MaxQuestions, g \in Gens :
        LET t == now + 1
            s1 == [Self EXCEPT
                     !.candidate_data = [present |-> TRUE, max_questions |-> m],
                     !.candidate_profile =
                          [@ EXCEPT !.has_context = TRUE, !.preferred_difficulty = "Medium"],
                     !.interview_metadata =
                          [present |-> TRUE, start_time |-> t, max_questions |-> m,
                           has_final |-> FALSE, final_decision |-> NoDecision,
                           questions_completed |-> 0],
                     !.start_time = t]
            s2 == [s1 EXCEPT !.current_questions = g.questions]
            s3 == [s2 EXCEPT
                     !.interview_state = "in_progress",
                     !.current_question_index = 0,
                     !.excel_skills_tested = @ \cup {g.questions[1].skill_target},
                     !.chat_history = @ \o <<"adaptive_excel_interview_start",
                                             "adaptive_question">>]
            Err(e, calls) == Result("start_interview", FALSE, e, FALSE, calls, GenTag(g))
        IN  IF g.kind # "ok"
            THEN Commit(s1, Err("Failed to generate initial questions", <<"quecraft">>))
            ELSE \E welcome_ok \in BOOLEAN :
                 IF ~welcome_ok
                 THEN Commit(s2, Err("Failed to start interview", <<"quecraft", "welcome">>))
                 ELSE IF g.questions = <<>>
                 THEN Commit(s2, Err("exception", <<"quecraft", "welcome">>))
                 ELSE \E present_ok \in BOOLEAN :
                      IF ~present_ok
                      THEN Commit(s2, Err("Failed to present first question",
                                          <<"quecraft", "welcome", "present">>))
                      ELSE Commit(s3, Result("start_interview", TRUE, "", FALSE,
                                             <<"quecraft", "welcome", "present">>, "ok"))

StartInterview == StartInterviewWith(MaxClock, MaxQuestionsValues, GenOutcomes)

\* The completion that asks the recruiter a second time when the first
\* request did not deliver a decision.
CompleteAdaptiveAssessment_AsksAgain(s, t, calls, gen) ==
    \E r \in RecruiterOutcomes :
        LET s1 == [s EXCEPT !.interview_state = "completed", !.end_time = t]
            final_decision == IF r = "ok" THEN ParsedDecision ELSE FallbackDecision
            s2 == [s1 EXCEPT !.interview_metadata =
                       [@ EXCEPT !.has_final = TRUE, !.final_decision = final_decision,
                                 !.questions_completed = Len(s.assessment_results)]]
            asked == IF r = "ok" THEN <<"recruiter">> ELSE <<"recruiter", "recruiter">>
        IN  IF r = "raises"
            THEN Commit(s1, ResultOf("process_response", FALSE, "exception", TRUE,
                                     calls \o asked, gen, r))
            ELSE Commit(s2, ResultOf("process_response", TRUE, "", TRUE,
                                     calls \o asked \o <<"conclude">>, gen, r))

\* _complete_adaptive_assessment, entered from process_response with the
\* orchestrator in state s at time t.
CompleteAdaptiveAssessment(s, t, calls, gen) ==
    \E r \in RecruiterOutcomes :
        LET s1 == [s EXCEPT !.interview_state = "completed", !.end_time = t]
            final_decision == IF r = "ok" THEN ParsedDecision ELSE FallbackDecision
            s2 == [s1 EXCEPT !.interview_metadata =
                       [@ EXCEPT !.has_final = TRUE, !.final_decision = final_decision,
                                 !.questions_completed = Len(s.assessment_results)]]
        IN  IF r = "raises"
            THEN Commit(s1, ResultOf("process_response", FALSE, "exception", TRUE,
                                     calls \o <<"recruiter">>, gen, r))
            ELSE Commit(s2, ResultOf("process_response", TRUE, "", TRUE,
                                     calls \o <<"recruiter", "conclude">>, gen, r))

\* The early returns with the check of interview_state left out.
ResponseRejected_NoStateCheck(state, index, questions) ==
    index >= Len(questions)

\* The two early returns of process_response.
ResponseRejected(state, index, questions) ==
    state # "in_progress" \/ index >= Len(questions)

\* The entry of the trajectory-decision log that reports the whole batch as
\* generated, whatever its length.
TrajectoryDecision_CountRequested(next_questions) ==
    [questions_generated |-> count]

\* The entry process_response adds to the trajectory-decision log after a
\* successful refill.
TrajectoryDecision(next_questions) ==
    [questions_generated |-> Len(next_questions)]

\* process_response.  The call is made before the instant limit, with the
\* evaluation response drawn from Evals and the refill response from Gens.
ProcessResponseWith(limit, Evals, Gens) ==
    IF ResponseRejected(interview_state, current_question_index, current_questions)
    THEN /\ UNCHANGED <<orchVars, now, rlVars>>
         /\ last' = Result("process_response", FALSE,
                           IF interview_state # "in_progress"
                           THEN "Interview not in progress"
                           ELSE "No current question available",
                           FALSE, <<>>, "none")
    ELSE
    /\ now < limit
    /\ Tick(now + 1)
    /\ \E e \in Evals :
        LET t == now + 1
            current_question == current_questions[current_question_index + 1]
            Err(msg, calls, gen) == Result("process_response", FALSE, msg, FALSE, calls, gen)
            s1 == [Self EXCEPT !.chat_history = Append(@, "adaptive_response")]
            upd == UpdateCandidateProfile(candidate_profile, excel_performance_by_skill,
                                          current_question, e.evaluation)
            s2 == [s1 EXCEPT !.candidate_profile = upd.profile,
                             !.excel_performance_by_skill = upd.perf]
            s3 == [s2 EXCEPT !.assessment_results =
                       Append(@, [question |-> current_question,
                                  evaluation |-> e.evaluation])]
            decision == ShouldContinue(s3.assessment_results,
                                       MaxQuestionsOf(s3.candidate_data),
                                       s3.excel_skills_tested)
            s4 == [s3 EXCEPT !.current_question_index = @ + 1]
            refill == s4.current_question_index >= Len(s4.current_questions)
        IN  IF e.kind # "ok"
            THEN Commit(s1, Err("Failed to evaluate response", <<"reviewer">>, "none"))
            ELSE IF upd.raised
            THEN Commit(s2, Err("exception", <<"reviewer">>, "none"))
            ELSE IF e.evaluation.follow_up_needed
            THEN \E clarify_ok \in BOOLEAN :
                    IF clarify_ok
                    THEN Commit(s3, Result("process_response", TRUE, "", FALSE,
                                           <<"reviewer", "clarify">>, "none"))
                    ELSE Commit(s3, Err("exception", <<"reviewer", "clarify">>, "none"))
            ELSE IF decision.raised
            THEN Commit(s3, Err("exception", <<"reviewer", "acknowledge">>, "none"))
            ELSE IF ~decision.continue
            THEN CompleteAdaptiveAssessment(s3, t, <<"reviewer", "acknowledge">>, "none")
            ELSE IF ~refill
            THEN LET s6 == [s4 EXCEPT
                              !.excel_skills_tested = @ \cup
                                  {s4.current_questions[s4.current_question_index + 1].skill_target},
                              !.chat_history = Append(@, "adaptive_question")]
                     calls == <<"reviewer", "acknowledge", "present">>
                 IN  \E present_ok \in BOOLEAN :
                        IF ~present_ok
                        THEN Commit(s4, Err("Failed to present next question", calls, "none"))
                        ELSE Commit(s6, Result("process_response", TRUE, "", FALSE,
                                               calls, "none"))
            ELSE \E g \in Gens :
                 LET calls == <<"reviewer", "acknowledge", "quecraft">>
                     s5 == [s4 EXCEPT
                              !.current_questions = @ \o g.questions,
                              !.trajectory_decisions =
                                  Append(@, TrajectoryDecision(g.questions))]
                     s6 == [s5 EXCEPT
                              !.excel_skills_tested = @ \cup
                                  {s5.current_questions[s5.current_question_index + 1].skill_target},
                              !.chat_history = Append(@, "adaptive_question")]
                 IN  IF g.kind # "ok"
                     THEN CompleteAdaptiveAssessment(s4, t, calls, GenTag(g))
                     ELSE IF s5.current_question_index >= Len(s5.current_questions)
                     THEN Commit(s5, Err("exception", calls, GenTag(g)))
                     ELSE \E present_ok \in BOOLEAN :
                          IF ~present_ok
                          THEN Commit(s5, Err("Failed to present next question",
                                              calls \o <<"present">>, GenTag(g)))
                          ELSE Commit(s6, Result("process_response", TRUE, "", FALSE,
                                                 calls \o <<"present">>, GenTag(g)))

ProcessResponse == ProcessResponseWith(MaxClock, EvalOutcomes, GenOutcomes)

\* get_progress: reads only; _analyze_performance_trend may raise.
GetProgress ==
    /\ UNCHANGED <<orchVars, now, rlVars>>
    /\ last' = IF AnalyzePerformanceTrend(candidate_profile) = "raise"
               THEN Result("get_progress", FALSE, "exception", FALSE, <<>>, "none")
               ELSE Result("get_progress", TRUE, "", FALSE, <<>>, "none")

\* get_final_results: rejects a session that is not completed; otherwise it
\* calls self._calculate_adaptive_performance_metrics, which the class does
\* not define, and returns the error of the except branch.
GetFinalResults ==
    /\ UNCHANGED <<orchVars, now, rlVars>>
    /\ last' = IF interview_state # "completed"
               THEN Result("get_final_results", FALSE, "Adaptive assessment not completed",
                           FALSE, <<>>, "none")
               ELSE Result("get_final_results", FALSE, "exception", FALSE, <<>>, "none")

\* ------------------------------------------------------------ RateLimiter
Threads == 1 .. NumThreads

\* The timestamps of a list that are younger than time_window at instant t.
InWindow(reqs, t, window) == SelectSeq(reqs, LAMBDA r : t - r < window)

\* A caller enters wait_if_needed.
WaitIfNeeded(t) ==
    /\ pc[t] = "idle"
    /\ pc' = [pc EXCEPT ![t] = "check"]
    /\ UNCHANGED <<requests, max_requests, time_window, rl_now>>

\* The check that also passes with max_requests timestamps in the window.
CanMakeRequest_AtLimit(t) ==
    /\ pc[t] = "check"
    /\ requests' = InWindow(requests, rl_now, time_window)
    /\ pc' = [pc EXCEPT ![t] = IF Len(requests') <= max_requests THEN "record" ELSE "sleep"]
    /\ UNCHANGED <<max_requests, time_window, rl_now>>

\* can_make_request: under the lock, purge the old timestamps and compare
\* the count with max_requests.  The lock is released on return.
CanMakeRequest(t) ==
    /\ pc[t] = "check"
    /\ requests' = InWindow(requests, rl_now, time_window)
    /\ pc' = [pc EXCEPT ![t] = IF Len(requests') < max_requests THEN "record" ELSE "sleep"]
    /\ UNCHANGED <<max_requests, time_window, rl_now>>

\* record_request that appends the current time twice.
RecordRequest_Twice(t) ==
    /\ pc[t] = "record"
    /\ requests' = Append(Append(requests, rl_now), rl_now)
    /\ pc' = [pc EXCEPT ![t] = "idle"]
    /\ UNCHANGED <<max_requests, time_window, rl_now>>

\* record_request: under the lock (taken anew), append the current time;
\* wait_if_needed returns.
RecordRequest(t) ==
    /\ pc[t] = "record"
    /\ requests' = Append(requests, rl_now)
    /\ pc' = [pc EXCEPT ![t] = "idle"]
    /\ UNCHANGED <<max_requests, time_window, rl_now>>

\* One second passes; callers in time.sleep(1) wake up and check again.
AdvanceClock ==
    /\ rl_now < MaxTime
    /\ rl_now' = rl_now + 1
    /\ pc' = [t \in Threads |-> IF pc[t] = "sleep" THEN "check" ELSE pc[t]]
    /\ UNCHANGED <<requests, max_requests, time_window>>

\* ------------------------------------------------------------------- Init
OrchInit ==
    /\ interview_state = "not_started"
    /\ current_questions = <<>>
    /\ current_question_index = 0
    /\ chat_history = <<>>
    /\ assessment_results = <<>>
    /\ candidate_data = [present |-> FALSE, max_questions |-> 10]
    /\ interview_metadata = [present |-> FALSE, start_time |-> 0, max_questions |-> 10,
                             has_final |-> FALSE, final_decision |-> NoDecision,
                             questions_completed |-> 0]
    /\ excel_skills_tested = {}
    /\ excel_performance_by_skill = [s \in Skills |-> <<>>]
    /\ candidate_profile = [strengths |-> <<>>, weaknesses |-> <<>>,
                            skill_trajectory |-> <<>>,
                            preferred_difficulty |-> "Medium",
                            areas_needing_focus |-> <<>>,
                            has_context |-> FALSE]
    /\ trajectory_decisions = <<>>
    /\ start_time = 0
    /\ end_time = 0
    /\ now = 0
    /\ last = Result("init", TRUE, "", FALSE, <<>>, "none")

\* The limiter of the orchestrator's session is left idle.
RLIdle ==
    /\ requests = <<>>
    /\ max_requests = 1
    /\ time_window = 1
    /\ rl_now = 0
    /\ pc = [t \in Threads |-> "idle"]

Init == OrchInit /\ RLIdle

Next ==
    \/ StartInterview
    \/ ProcessResponse
    \/ GetProgress
    \/ GetFinalResults

Spec == Init /\ [][Next]_vars

\* A RateLimiter constructed with any max_requests and time_window, shared
\* by concurrent callers.
InitRL ==
    /\ OrchInit
    /\ requests = <<>>
    /\ max_requests \in 0 .. MaxRequests
    /\ time_window \in 1 .. MaxWindow
    /\ rl_now = 0
    /\ pc = [t \in Threads |-> "idle"]

NextRL ==
    \/ \E t \in Threads : WaitIfNeeded(t) /\ UNCHANGED <<orchVars, now, last>>
    \/ \E t \in Threads : CanMakeRequest(t) /\ UNCHANGED <<orchVars, now, last>>
    \/ \E t \in Threads : RecordRequest(t) /\ UNCHANGED <<orchVars, now, last>>
    \/ AdvanceClock /\ UNCHANGED <<orchVars, now, last>>

SpecRL == InitRL /\ [][NextRL]_vars

\* ------------------------------------------- private methods, called alone
\* The private methods of the orchestrator applied one call at a time to an
\* orchestrator whose profile is built by _update_candidate_profile calls.

\* Length of the trajectory built by direct profile updates.
MaxTrajectory == 4

\* Scores around the thresholds 60 / 80 (lists), 70 / 85 (mean) and the
\* difference 10 (trend).
ProfileScores == {50, 60, 79, 80, 91}

\* Evaluations handed to _update_candidate_profile: a numeric score or a
\* score that is no number.
ProfileEvaluations ==
    {[has_score |-> TRUE, score |-> Num(v), follow_up_needed |-> FALSE] : v \in ProfileScores}
    \cup {[has_score |-> TRUE, score |-> NonNumeric, follow_up_needed |-> FALSE]}

\* all_excel_skills of _identify_skill_gaps.
all_excel_skills ==
    <<"Basic Formulas and Functions",
      "Data Manipulation and Cleaning",
      "Lookup Functions (VLOOKUP, INDEX/MATCH)",
      "Pivot Tables and Data Analysis",
      "Data Visualization and Charts",
      "Conditional Logic and IF Statements",
      "Advanced Functions and Array Formulas">>

KnownSkill(I) == {all_excel_skills[i] : i \in I}

\* Contents of excel_skills_tested: nothing tested, everything tested, one or
\* two known skills left, and a set with an unknown label and gaps in it.
TestedSets ==
    {{}, KnownSkill(1 .. 7), KnownSkill((1 .. 7) \ {4}),
     KnownSkill((1 .. 7) \ {2, 5}), KnownSkill({1, 3}) \cup {"Lookup"}}

\* The value a private method hands back to its caller.
Returned(op, value) == [op |-> op, value |-> value]

\* The skill gaps with three untested skills instead of two.
IdentifySkillGaps_ThreeUntested(profile, tested) ==
    LET untested_skills == SelectSeq(all_excel_skills, LAMBDA skill : skill \notin tested)
    IN  profile.areas_needing_focus
        \o SubSeq(untested_skills, 1,
                  IF Len(untested_skills) < 3 THEN Len(untested_skills) ELSE 3)

\* _identify_skill_gaps: areas_needing_focus + untested_skills[:2].
IdentifySkillGaps(profile, tested) ==
    LET untested_skills == SelectSeq(all_excel_skills, LAMBDA skill : skill \notin tested)
    IN  profile.areas_needing_focus
        \o SubSeq(untested_skills, 1,
                  IF Len(untested_skills) < 2 THEN Len(untested_skills) ELSE 2)

\* A call of _update_candidate_profile(question, evaluation, answer).
UpdateProfileCall ==
    /\ Len(candidate_profile.skill_trajectory) < MaxTrajectory
    /\ \E skill \in Skills, ev \in ProfileEvaluations :
        LET upd == UpdateCandidateProfile(candidate_profile, excel_performance_by_skill,
                                          [skill_target |-> skill], ev)
        IN  /\ candidate_profile' = upd.profile
            /\ excel_performance_by_skill' = upd.perf
            /\ last' = Returned("_update_candidate_profile",
                                [raised |-> upd.raised, skill |-> skill,
                                 score |-> EvalScore(ev)])
    /\ UNCHANGED <<interview_state, current_questions, current_question_index,
                   chat_history, assessment_results, candidate_data,
                   interview_metadata, excel_skills_tested, trajectory_decisions,
                   start_time, end_time, now, rlVars>>

\* A call of _analyze_performance_trend().
AnalyzeTrendCall ==
    /\ last' = Returned("_analyze_performance_trend",
                        AnalyzePerformanceTrend(candidate_profile))
    /\ UNCHANGED <<orchVars, now, rlVars>>

\* A call of _identify_skill_gaps().
IdentifySkillGapsCall ==
    /\ last' = Returned("_identify_skill_gaps",
                        IdentifySkillGaps(candidate_profile, excel_skills_tested))
    /\ UNCHANGED <<orchVars, now, rlVars>>

\* A constructed orchestrator whose set of tested skills has any of the
\* contents above.
InitProfile ==
    /\ interview_state = "not_started"
    /\ current_questions = <<>>
    /\ current_question_index = 0
    /\ chat_history = <<>>
    /\ assessment_results = <<>>
    /\ candidate_data = [present |-> FALSE, max_questions |-> 10]
    /\ interview_metadata = [present |-> FALSE, start_time |-> 0, max_questions |-> 10,
                             has_final |-> FALSE, final_decision |-> NoDecision,
                             questions_completed |-> 0]
    /\ excel_skills_tested \in TestedSets
    /\ excel_performance_by_skill = [s \in Skills |-> <<>>]
    /\ candidate_profile = [strengths |-> <<>>, weaknesses |-> <<>>,
                            skill_trajectory |-> <<>>,
                            preferred_difficulty |-> "Medium",
                            areas_needing_focus |-> <<>>,
                            has_context |-> FALSE]
    /\ trajectory_decisions = <<>>
    /\ start_time = 0
    /\ end_time = 0
    /\ now = 0
    /\ last = Returned("__init__", "None")
    /\ RLIdle

NextProfile ==
    \/ UpdateProfileCall
    \/ AnalyzeTrendCall
    \/ IdentifySkillGapsCall

SpecProfile == InitProfile /\ [][NextProfile]_vars

\* Number of assessment records the continue / stop decision is applied to.
MaxRecords == 7

\* Scores with spreads of 10 (< 15), 15 and more; an evaluation may also
\* carry no score.
PolicyScores == {50, 60, 65, 90}
PolicyEvaluations ==
    {[has_score |-> TRUE, score |-> Num(v), follow_up_needed |-> FALSE] : v \in PolicyScores}
    \cup {NoEvaluation}

\* max_questions values below, at and above the floor of 4 records, and
\* numbers of tested skills below, at and above target_skills.
PolicyMaxQuestions == {3, 4, 6, 10}
PolicyTestedSets == {KnownSkill(1 .. k) : k \in {0, 4, 5, 7}}

\* assessment_results of length n: its last 4 records carry any evaluations,
\* the older ones all the same score.
RecordOf(ev) == [question |-> [skill_target |-> "Lookup"], evaluation |-> ev]
RecordLists ==
    UNION {{[i \in 1 .. n |-> RecordOf(IF i <= n - 4 THEN old ELSE w[i - (n - 4)])] :
               w \in [((IF n < 4 THEN 4 - n ELSE 0) + 1) .. 4 -> PolicyEvaluations],
               old \in {[has_score |-> TRUE, score |-> Num(v), follow_up_needed |-> FALSE] :
                           v \in {50, 90}}} :
           n \in 0 .. MaxRecords}

\* A call of _should_continue_adaptive_assessment().
ShouldContinueCall ==
    /\ last' = Returned("_should_continue_adaptive_assessment",
                        ShouldContinue(assessment_results,
                                       MaxQuestionsOf(candidate_data),
                                       excel_skills_tested))
    /\ UNCHANGED <<orchVars, now, rlVars>>

\* A session in progress with any records, max_questions and tested skills.
InitPolicy ==
    /\ interview_state = "in_progress"
    /\ current_questions = Batch(1)
    /\ current_question_index = 0
    /\ chat_history = <<>>
    /\ assessment_results \in RecordLists
    /\ \E m \in PolicyMaxQuestions :
          /\ candidate_data = [present |-> TRUE, max_questions |-> m]
          /\ interview_metadata = [present |-> TRUE, start_time |-> 1, max_questions |-> m,
                                   has_final |-> FALSE, final_decision |-> NoDecision,
                                   questions_completed |-> 0]
    /\ excel_skills_tested \in PolicyTestedSets
    /\ excel_performance_by_skill = [s \in Skills |-> <<>>]
    /\ candidate_profile = [strengths |-> <<>>, weaknesses |-> <<>>,
                            skill_trajectory |-> <<>>,
                            preferred_difficulty |-> "Medium",
                            areas_needing_focus |-> <<>>,
                            has_context |-> TRUE]
    /\ trajectory_decisions = <<>>
    /\ start_time = 1
    /\ end_time = 0
    /\ now = 1
    /\ last = Returned("__init__", "None")
    /\ RLIdle

NextPolicy == ShouldContinueCall

SpecPolicy == InitPolicy /\ [][NextPolicy]_vars

\* ------------------------------------------------- one session, followed up
\* to its end: a caller that starts an unstarted orchestrator once and then
\* answers.  max_questions is below or above the floor of 4; the questions
\* of the generator go through all_excel_skills in order, so that the first
\* seven questions of the queue are on seven distinct skills; the reviewer
\* scores 90 or 50 and may ask for a follow-up on the 50.
MaxSessionClock == 6
SessionMaxQuestions == {1, 5}
SessionScores == {50, 90}

SessionSkills == {all_excel_skills[i] : i \in DOMAIN all_excel_skills}
SessionSkill(i) == all_excel_skills[((i - 1) % Len(all_excel_skills)) + 1]

\* The batch of n questions generated when the queue holds k questions.
SessionBatch(k, n) == [i \in 1 .. n |-> [skill_target |-> SessionSkill(k + i)]]

SessionGenOutcomes ==
    {[kind |-> "call_failed", questions |-> <<>>]}
    \cup {[kind |-> "ok", questions |-> SessionBatch(Len(current_questions), n)] :
              n \in 1 .. count}

SessionEvaluations ==
    {[has_score |-> TRUE, score |-> Num(v), follow_up_needed |-> FALSE] : v \in SessionScores}
    \cup {[has_score |-> TRUE, score |-> Num(50), follow_up_needed |-> TRUE]}

SessionEvalOutcomes ==
    {[kind |-> "call_failed", evaluation |-> NoEvaluation]}
    \cup {[kind |-> "ok", evaluation |-> e] : e \in SessionEvaluations}

InitSession ==
    /\ interview_state = "not_started"
    /\ current_questions = <<>>
    /\ current_question_index = 0
    /\ chat_history = <<>>
    /\ assessment_results = <<>>
    /\ candidate_data = [present |-> FALSE, max_questions |-> 10]
    /\ interview_metadata = [present |-> FALSE, start_time |-> 0, max_questions |-> 10,
                             has_final |-> FALSE, final_decision |-> NoDecision,
                             questions_completed |-> 0]
    /\ excel_skills_tested = {}
    /\ excel_performance_by_skill = [s \in SessionSkills |-> <<>>]
    /\ candidate_profile = [strengths |-> <<>>, weaknesses |-> <<>>,
                            skill_trajectory |-> <<>>,
                            preferred_difficulty |-> "Medium",
                            areas_needing_focus |-> <<>>,
                            has_context |-> FALSE]
    /\ trajectory_decisions = <<>>
    /\ start_time = 0
    /\ end_time = 0
    /\ now = 0
    /\ last = Result("init", TRUE, "", FALSE, <<>>, "none")
    /\ RLIdle

StartSession ==
    /\ interview_state = "not_started"
    /\ StartInterviewWith(MaxSessionClock, SessionMaxQuestions, SessionGenOutcomes)

AnswerSession ==
    ProcessResponseWith(MaxSessionClock, SessionEvalOutcomes, SessionGenOutcomes)

NextSession ==
    \/ StartSession
    \/ AnswerSession

SpecSession == InitSession /\ [][NextSession]_vars

\* ------------------------------------------- the limiter on a running clock
\* One second passes on a clock that never stops.  can_make_request reads
\* only the age datetime.now() - req_time of a timestamp, so the origin of
\* time moves with the clock: rl_now stays and every timestamp inside the
\* window becomes one second older; a timestamp that has left the window is
\* outside every later window and stays as it is.  Callers in time.sleep(1)
\* wake up and check again.
Elapse ==
    /\ requests' = [i \in DOMAIN requests |->
                        IF rl_now - requests[i] < time_window
                        THEN requests[i] - 1 ELSE requests[i]]
    /\ pc' = [t \in Threads |-> IF pc[t] = "sleep" THEN "check" ELSE pc[t]]
    /\ UNCHANGED <<max_requests, time_window, rl_now>>

NextRLFair ==
    \/ \E t \in Threads : WaitIfNeeded(t) /\ UNCHANGED <<orchVars, now, last>>
    \/ \E t \in Threads : CanMakeRequest(t) /\ UNCHANGED <<orchVars, now, last>>
    \/ \E t \in Threads : RecordRequest(t) /\ UNCHANGED <<orchVars, now, last>>
    \/ Elapse /\ UNCHANGED <<orchVars, now, last>>

\* Time advances, and a thread that is inside wait_if_needed is scheduled:
\* its pending check and its pending record are eventually executed.  Nothing
\* obliges a caller to call.
FairnessRL ==
    /\ WF_vars(Elapse /\ UNCHANGED <<orchVars, now, last>>)
    /\ \A t \in Threads :
        /\ WF_vars(CanMakeRequest(t) /\ UNCHANGED <<orchVars, now, last>>)
        /\ WF_vars(RecordRequest(t) /\ UNCHANGED <<orchVars, now, last>>)

SpecRLFair == InitRL /\ [][NextRLFair]_vars /\ FairnessRL

\* ================================================================ claims
\* A step in which the named public method ran (read-only calls and
\* rejected calls do not read the clock; calls that do, advance it).
Called(op) == last'.op = op /\ vars' # vars
Ran(op) == last'.op = op /\ now' # now

\* C1: in every interleaving of wait_if_needed callers, the timestamps that
\* lie inside the current window never outnumber max_requests.
C1_RateLimitRespected ==
    Len(InWindow(requests, rl_now, time_window)) <= max_requests

\* C2: the session state only moves not_started -> in_progress -> completed;
\* start_interview takes effect only from not_started, and from completed no
\* public call changes the state, the queue or the assessment records.
C2_StateOnlyMovesForward ==
    [][ /\ interview_state' # interview_state =>
              <<interview_state, interview_state'>> \in
                  {<<"not_started", "in_progress">>, <<"in_progress", "completed">>}
        /\ (Called("start_interview") /\ interview_state # "not_started") =>
              UNCHANGED orchVars
        /\ interview_state = "completed" =>
              UNCHANGED <<interview_state, current_questions, assessment_results>>
      ]_vars

\* C3: after any sequence of calls, whatever the evaluator returned, the
\* trajectory is as long as the list of assessment records.
C3_TrajectoryMatchesResults ==
    Len(candidate_profile.skill_trajectory) = Len(assessment_results)

\* C4: the cursor stays within 0 .. len(queue), and no call returns with the
\* session in progress and the cursor past the last question.
C4_CursorAddressesQueue ==
    /\ 0 <= current_question_index
    /\ current_question_index <= Len(current_questions)
    /\ interview_state = "in_progress" =>
           current_question_index < Len(current_questions)

\* C5: a process_response call whose evaluator request fails returns an
\* error and leaves every orchestrator field as it was.
C5_EvaluationFailureMutatesNothing ==
    [][ (Ran("process_response") /\ last'.error = "Failed to evaluate response") =>
            (~last'.success /\ UNCHANGED orchVars)
      ]_vars

\* C6: process_response called when the state is not in_progress, or when
\* the cursor addresses no question, returns an error, calls no collaborator
\* and changes no state.
C6_RejectedResponseChangesNothing ==
    [][ (Called("process_response")
         /\ (interview_state # "in_progress"
             \/ current_question_index >= Len(current_questions))) =>
            (~last'.success /\ last'.calls = <<>> /\ UNCHANGED <<orchVars, now>>)
      ]_vars

\* A call was rejected in a session that is in progress with its cursor at
\* the end of the queue.
C6_RejectedAtQueueEnd ==
    /\ last.op = "process_response"
    /\ last.error = "No current question available"
    /\ interview_state = "in_progress"
    /\ current_question_index >= Len(current_questions)

\* C7: when the refill request of process_response fails, the call returns
\* no error: the session is completed and the payload says so.
C7_RefillFailureCompletesCleanly ==
    [][ (Ran("process_response") /\ last'.gen = "failed") =>
            (last'.success /\ last'.interview_complete
             /\ interview_state' = "completed")
      ]_vars

\* C8: a generation answer with zero questions counts as a failure: a start
\* from not_started fails and stays not_started, a refill completes the
\* session.
C8_EmptyBatchIsFailure ==
    [][ /\ (Ran("start_interview") /\ last'.gen = "empty"
            /\ interview_state = "not_started") =>
               (~last'.success /\ interview_state' = "not_started")
        /\ (Ran("process_response") /\ last'.gen = "empty") =>
               (interview_state' = "completed" /\ last'.interview_complete)
      ]_vars

\* C9: a start_interview call that fails from not_started leaves the state
\* not_started and the queue, cursor, tested skills, candidate data, profile,
\* metadata and start time as they were.
C9_FailedStartLeavesNoPartialState ==
    [][ (Ran("start_interview") /\ ~last'.success
         /\ interview_state = "not_started") =>
            (/\ interview_state' = "not_started"
             /\ UNCHANGED <<current_questions, current_question_index,
                            excel_skills_tested, candidate_data,
                            candidate_profile, interview_metadata, start_time>>)
      ]_vars

\* C10: completion entered from in_progress always succeeds: the state is
\* completed, the end time is set, a final decision is recorded, and it is
\* the fixed fallback whenever the recruiter request failed.
C10_CompletionAlwaysSucceeds ==
    [][ (Ran("process_response") /\ last'.recruiter # "none") =>
            (/\ last'.success
             /\ interview_state' = "completed"
             /\ end_time' = now'
             /\ interview_metadata'.has_final
             /\ last'.recruiter # "ok" =>
                    interview_metadata'.final_decision = FallbackDecision)
      ]_vars

\* C11: get_final_results returns an error exactly when the state is not
\* completed (on a completed session it returns the results), and in neither
\* case changes any orchestrator field.
C11_FinalResultsIsPureProjection ==
    [][ Called("get_final_results") =>
            (/\ UNCHANGED <<orchVars, now>>
             /\ last'.success <=> (interview_state = "completed"))
      ]_vars

\* A continue / stop decision was just returned for the current records.
Decided == last.op = "_should_continue_adaptive_assessment"

\* C12: with fewer than 4 assessment records the decision is continue = true,
\* for every score sequence, max_questions and number of tested skills.
C12_FloorForcesContinue ==
    (Decided /\ Len(assessment_results) < 4) =>
        (~last.value.raised /\ last.value.continue)

\* Three records with max_questions = 3 and seven tested skills: the limit
\* and the coverage rule would both stop, the floor continues.
C12_FloorOverridesStopRules ==
    /\ Decided
    /\ Len(assessment_results) = 3
    /\ candidate_data.max_questions = 3
    /\ Cardinality(excel_skills_tested) >= target_skills
    /\ last.value.continue

\* C13, as amended: for every max_questions >= 4 and every score sequence, the
\* decision with exactly max_questions records is continue = false with the
\* reason "Reached maximum question limit".
C13_MaxReachedStopsFromFloorUp ==
    (Decided /\ Len(assessment_results) = candidate_data.max_questions
     /\ candidate_data.max_questions >= 4) =>
        (/\ ~last.value.raised
         /\ ~last.value.continue
         /\ last.value.reason = "Reached maximum question limit")

\* C13: for every max_questions and every score sequence, the decision with
\* exactly max_questions records is continue = false with the "max reached"
\* reason.
C13_MaxReachedStops ==
    (Decided /\ Len(assessment_results) = candidate_data.max_questions) =>
        (/\ ~last.value.continue
         /\ last.value.reason = "Reached maximum question limit")

\* Six records at max_questions = 6 whose scores rise from 50 to 90 and a
\* record without a score: the decision is the stop at the limit.
C13_StoppedAtLimit ==
    /\ Decided
    /\ Len(assessment_results) = 6
    /\ candidate_data.max_questions = 6
    /\ assessment_results[3].evaluation.score = Num(50)
    /\ assessment_results[6].evaluation.score = Num(90)
    /\ ~assessment_results[5].evaluation.has_score
    /\ last.value.reason = "Reached maximum question limit"

\* C14: the decision equals the reference that takes the first match of:
\* fewer than 4 records -> continue; records >= max_questions -> stop (max
\* reached); records >= 6 and max - min of the last 4 scores < 15 -> stop
\* (performance level established); tested skills >= 5 -> stop (adequate
\* coverage); otherwise continue.  A record's score is the one the profile
\* recorded for it (0 when the evaluation carried none).
C14_DecisionEqualsReference ==
    LET n == Len(assessment_results)
        score(i) == IF assessment_results[i].evaluation.has_score
                    THEN assessment_results[i].evaluation.score.val
                    ELSE 0
        last4 == {i \in 1 .. n : i > n - 4}
        plateau == n >= 6 /\ \A i, j \in last4 : score(i) - score(j) < 15
        reference ==
            CASE n < 4 -> <<TRUE, "Need minimum assessment coverage">>
              [] n >= 4 /\ n >= candidate_data.max_questions ->
                     <<FALSE, "Reached maximum question limit">>
              [] n >= 4 /\ n < candidate_data.max_questions /\ plateau ->
                     <<FALSE, "Performance level established">>
              [] n >= 4 /\ n < candidate_data.max_questions /\ ~plateau
                 /\ Cardinality(excel_skills_tested) >= 5 ->
                     <<FALSE, "Adequate skill coverage achieved">>
              [] OTHER -> <<TRUE, "Continue adaptive assessment">>
    IN  Decided =>
            (~last.value.raised /\ <<last.value.continue, last.value.reason>> = reference)

\* The same comparison on the records whose last 4 evaluations all carry a
\* score.
C14_DecisionEqualsReferenceOnScoredRecords ==
    (\A i \in DOMAIN assessment_results :
         i > Len(assessment_results) - 4 => assessment_results[i].evaluation.has_score)
    => C14_DecisionEqualsReference

\* A trend was just returned for the current trajectory.
Trended == last.op = "_analyze_performance_trend"

\* C15, as amended: the trend is insufficient_data for fewer than 2 entries;
\* otherwise, the last 3 scores being numbers, the most recent score is
\* compared with the oldest of the last min(3, n) scores (2 entries back
\* when n >= 3): improving if it is more than 10 higher, declining if more
\* than 10 lower, stable otherwise.
C15_TrendComparesWithOldestOfLastThree ==
    LET traj == candidate_profile.skill_trajectory
        n == Len(traj)
        first == IF n >= 3 THEN n - 2 ELSE 1
        later == traj[n].score.val
        earlier == traj[first].score.val
    IN  Trended =>
            IF n < 2 THEN last.value = "insufficient_data"
            ELSE (\A i \in first .. n : traj[i].score.num) =>
                     last.value = (IF later - earlier > 10 THEN "improving"
                                   ELSE IF earlier - later > 10 THEN "declining"
                                   ELSE "stable")

\* C15: the trend is insufficient_data for fewer than 2 entries; otherwise
\* the most recent score is compared with the score 3 entries back, or with
\* the oldest of the last 3 when fewer exist: improving if it is more than
\* 10 higher, declining if more than 10 lower, stable otherwise.
C15_TrendComparesThreeEntriesBack ==
    LET traj == candidate_profile.skill_trajectory
        n == Len(traj)
        back == IF n >= 4 THEN n - 3 ELSE 1
        later == traj[n].score.val
        earlier == traj[back].score.val
    IN  Trended =>
            IF n < 2 THEN last.value = "insufficient_data"
            ELSE (\A i \in back .. n : traj[i].score.num) =>
                     last.value = (IF later - earlier > 10 THEN "improving"
                                   ELSE IF earlier - later > 10 THEN "declining"
                                   ELSE "stable")

\* Four entries 50, 91, 91, 91: the trend is stable, the entry 3 back (50)
\* not being read.
C15_StableOverLastThree ==
    LET traj == candidate_profile.skill_trajectory
    IN  /\ Trended
        /\ Len(traj) = 4
        /\ traj[1].score = Num(50)
        /\ \A i \in 2 .. 4 : traj[i].score = Num(91)
        /\ last.value = "stable"

\* The skill gaps were just returned for the current profile and tested set.
GapsListed == last.op = "_identify_skill_gaps"

\* C16: the skill gaps are the weak skills in their order, followed by the
\* first untested skills of the known-skill list, at most 2 of them, in the
\* order of that list; listing them changes neither the weak skills nor the
\* tested set.
C16_GapsAreWeakThenTwoUntested ==
    [][ last'.op = "_identify_skill_gaps" =>
          LET gaps == last'.value
              weak == candidate_profile.areas_needing_focus
              k == Len(gaps) - Len(weak)
              untested == {i \in DOMAIN all_excel_skills :
                              all_excel_skills[i] \notin excel_skills_tested}
              \* position in the known list of the j-th listed untested skill
              pos(j) == CHOOSE i \in DOMAIN all_excel_skills :
                            all_excel_skills[i] = gaps[Len(weak) + j]
          IN  /\ k >= 0
              /\ SubSeq(gaps, 1, Len(weak)) = weak
              /\ k = (IF Cardinality(untested) < 2 THEN Cardinality(untested) ELSE 2)
              /\ \A j \in 1 .. k :
                     /\ gaps[Len(weak) + j] \in KnownSkill(untested)
                     /\ Cardinality({i \in untested : i < pos(j)}) = j - 1
              /\ UNCHANGED <<candidate_profile, excel_skills_tested>>
      ]_vars

\* Two weak skills, "Pivot" before "Lookup", with known skills 1 and 3 and
\* an unknown label tested: the gaps are the two weak skills, then known
\* skills 2 and 4.
C16_GapsSkipTestedSkills ==
    /\ GapsListed
    /\ candidate_profile.areas_needing_focus = <<"Pivot", "Lookup">>
    /\ excel_skills_tested = KnownSkill({1, 3}) \cup {"Lookup"}
    /\ last.value = <<"Pivot", "Lookup", all_excel_skills[2], all_excel_skills[4]>>

\* The profile was just updated with last.value.skill and last.value.score.
Updated == last.op = "_update_candidate_profile"

\* C17: a skill that is in weaknesses, or in areas_needing_focus, is still
\* there after every later step, whatever score a later update carries.
C17_WeaknessesNeverShrink ==
    [][ \A skill \in Skills :
            /\ InSeq(skill, candidate_profile.weaknesses) =>
                   InSeq(skill, candidate_profile.weaknesses')
            /\ InSeq(skill, candidate_profile.areas_needing_focus) =>
                   InSeq(skill, candidate_profile.areas_needing_focus')
      ]_vars

\* An update with a score of 80 or more was applied to a skill that was
\* weak: the skill is now a strength and still a weakness.
C17_WeakSkillScoredHigh ==
    /\ Updated
    /\ ~last.value.raised
    /\ last.value.score.val >= 80
    /\ InSeq(last.value.skill, candidate_profile.strengths)
    /\ InSeq(last.value.skill, candidate_profile.weaknesses)
    /\ InSeq(last.value.skill, candidate_profile.areas_needing_focus)

\* C18: an update with score >= 80 adds the skill to strengths, one with
\* score < 60 adds it to weaknesses and to areas_needing_focus, one with
\* 60 <= score < 80 changes none of the three lists, and no list ever holds
\* a skill twice.
C18_ListsFollowThresholds ==
    [][ LET p == candidate_profile
            q == candidate_profile'
            skill == last'.value.skill
            score == last'.value.score
            NoRepeat(l) == \A i, j \in DOMAIN l : l[i] = l[j] => i = j
        IN  /\ (last'.op = "_update_candidate_profile" /\ score.num) =>
                /\ score.val >= 80 => InSeq(skill, q.strengths)
                /\ score.val < 60 =>
                       (InSeq(skill, q.weaknesses) /\ InSeq(skill, q.areas_needing_focus))
                /\ (60 <= score.val /\ score.val < 80) =>
                       /\ q.strengths = p.strengths
                       /\ q.weaknesses = p.weaknesses
                       /\ q.areas_needing_focus = p.areas_needing_focus
            /\ NoRepeat(q.strengths)
            /\ NoRepeat(q.weaknesses)
            /\ NoRepeat(q.areas_needing_focus)
      ]_vars

\* A skill was updated a second time with a score below 60 and a second
\* time with a score of 80 or more: it is once in each list.
C18_RepeatedSkillListedOnce ==
    LET traj == candidate_profile.skill_trajectory
    IN  /\ Updated
        /\ Len(traj) = 4
        /\ \A i \in 1 .. 4 : traj[i].skill = "Pivot"
        /\ traj[1].score = Num(50) /\ traj[2].score = Num(50)
        /\ traj[3].score = Num(91) /\ traj[4].score = Num(80)
        /\ candidate_profile.strengths = <<"Pivot">>
        /\ candidate_profile.weaknesses = <<"Pivot">>
        /\ candidate_profile.areas_needing_focus = <<"Pivot">>

\* C19: preferred_difficulty is Medium before any update; after an update it
\* is Hard when the mean of the last min(3, n) trajectory scores is >= 85,
\* Medium when that mean is >= 70 and < 85, Easy otherwise.
\* (The mean is that of numbers: a window holding a score that is no number
\* has none.)
C19_DifficultyFollowsRecentMean ==
    LET traj == candidate_profile.skill_trajectory
        n == Len(traj)
        k == IF n < 3 THEN n ELSE 3
        window == (n - k + 1) .. n
        Sum[i \in 0 .. n] == IF i <= n - k THEN 0 ELSE Sum[i - 1] + traj[i].score.val
        total == Sum[n]
    IN  /\ n = 0 => candidate_profile.preferred_difficulty = "Medium"
        /\ (Updated /\ \A i \in window : traj[i].score.num) =>
               candidate_profile.preferred_difficulty =
                   (IF total >= 85 * k THEN "Hard"
                    ELSE IF total >= 70 * k THEN "Medium"
                    ELSE "Easy")

\* Four updates 50, 79, 91, 91: the mean of the last three is 87, of all
\* four below 85, and the difficulty is Hard.
C19_HardOnLastThreeOnly ==
    LET traj == candidate_profile.skill_trajectory
    IN  /\ Updated
        /\ Len(traj) = 4
        /\ traj[1].score = Num(50) /\ traj[2].score = Num(79)
        /\ traj[3].score = Num(91) /\ traj[4].score = Num(91)
        /\ candidate_profile.preferred_difficulty = "Hard"

\* A process_response step whose evaluation succeeded and signalled
\* follow_up_needed: the reviewer answered and a clarification was requested.
FollowUpSignalled ==
    Ran("process_response") /\ last'.calls = <<"reviewer", "clarify">>

\* C20: when a successful evaluation signals follow_up_needed,
\* process_response records one assessment record for the answer and returns
\* a follow-up question, and the cursor, the queue, the trajectory-decision
\* log and the state in_progress are as before the call.
C20_FollowUpLeavesQueueAlone ==
    [][ FollowUpSignalled =>
            (/\ last'.success
             /\ ~last'.interview_complete
             /\ Len(assessment_results') = Len(assessment_results) + 1
             /\ UNCHANGED <<current_question_index, current_questions,
                            trajectory_decisions>>
             /\ interview_state' = "in_progress")
      ]_vars

\* The same step without the returned question: one record more and the
\* cursor, queue, log and state as before.
C20_FollowUpFrame ==
    [][ FollowUpSignalled =>
            (/\ Len(assessment_results') = Len(assessment_results) + 1
             /\ UNCHANGED <<current_question_index, current_questions,
                            trajectory_decisions, interview_state>>
             /\ interview_state = "in_progress")
      ]_vars

\* C23: a RateLimiter with max_requests <= 0 blocks for ever: no check of
\* can_make_request passes, no timestamp is recorded and no caller that
\* entered wait_if_needed returns.
C23_NonPositiveLimitBlocks ==
    [][ max_requests <= 0 =>
            (/\ requests' = <<>>
             /\ \A t \in Threads :
                    /\ pc'[t] # "record"
                    /\ pc[t] # "idle" => pc'[t] # "idle")
      ]_vars

\* Both callers of a limiter with max_requests = 0 have polled until the
\* last instant and are asleep again.
C23_BothCallersStillWaiting ==
    /\ max_requests = 0
    /\ rl_now = MaxTime
    /\ \A t \in Threads : pc[t] = "sleep"

C22_ReturnsOncePerPassedCheck ==
    [][ /\ \A t \in Threads :
            /\ (pc[t] # "record" /\ pc'[t] = "record") =>
                    (/\ pc[t] = "check"
                     /\ Len(InWindow(requests, rl_now, time_window)) < max_requests)
            /\ (pc[t] # "idle" /\ pc'[t] = "idle") =>
                    (/\ pc[t] = "record"
                     /\ requests' = Append(requests, rl_now))
        /\ Len(requests') > Len(requests) =>
                \E t \in Threads : pc[t] = "record" /\ pc'[t] = "idle"
      ]_vars

C22_CallReturnsWhenOthersStop ==
    \A t \in Threads :
        (<>[](\A u \in Threads \ {t} : pc[u] = "idle")) =>
            ((max_requests > 0 /\ pc[t] # "idle") ~> (pc[t] = "idle"))

C24_QueueOnlyAppends ==
    [][ \A i \in DOMAIN current_questions :
            /\ i \in DOMAIN current_questions'
            /\ current_questions'[i] = current_questions[i]
      ]_vars

\* C25: the trajectory-decision log holds one entry per batch-generation
\* event, the initial batch of start_interview included: a start_interview
\* whose generation succeeded and a process_response whose refill succeeded
\* each append one entry, and nothing else touches the log.
C25_OneEntryPerBatch ==
    [][ IF \/ Ran("start_interview") /\ last'.gen \in {"ok", "empty"}
           \/ Ran("process_response") /\ last'.gen \in {"ok", "empty"}
        THEN Len(trajectory_decisions') = Len(trajectory_decisions) + 1
        ELSE UNCHANGED trajectory_decisions
      ]_vars

\* C25, amended: the log holds one entry per successful refill and none for
\* the initial batch: a process_response whose refill request succeeded
\* appends one entry whose questions_generated is the number of questions the
\* batch added to the queue, and every other step leaves the log as it is.
C25_OneEntryPerRefill ==
    [][ IF Ran("process_response") /\ last'.gen \in {"ok", "empty"}
        THEN trajectory_decisions' =
                Append(trajectory_decisions,
                       [questions_generated |->
                            Len(current_questions') - Len(current_questions)])
        ELSE UNCHANGED trajectory_decisions
      ]_vars

\* A refill that added one question has been logged after a start that
\* generated two.
C25_ShortRefillLogged ==
    /\ last.op = "process_response"
    /\ last.gen = "ok"
    /\ Len(current_questions) = 3
    /\ trajectory_decisions = <<[questions_generated |-> 1]>>

\* C26: every call of _update_candidate_profile appends exactly one entry,
\* the skill and the score of that call, at the end of the trajectory and
\* leaves the earlier entries as they are, also when the call raises; no
\* other step touches the trajectory.  So the trajectory lists the updates
\* in call order and its length is their number.
C26_TrajectoryFollowsCalls ==
    [][ IF last'.op = "_update_candidate_profile"
        THEN candidate_profile'.skill_trajectory =
                Append(candidate_profile.skill_trajectory,
                       [skill |-> last'.value.skill, score |-> last'.value.score])
        ELSE UNCHANGED candidate_profile.skill_trajectory
      ]_vars

\* Four updates, one of them with a score that is not a number, are listed
\* in the order of the calls.
C26_FourUpdatesInCallOrder ==
    /\ Updated
    /\ candidate_profile.skill_trajectory =
          << [skill |-> "Pivot", score |-> Num(91)],
             [skill |-> "Lookup", score |-> NonNumeric],
             [skill |-> "Lookup", score |-> Num(50)],
             [skill |-> "Pivot", score |-> Num(60)] >>

\* The number of times a call sent a request to the collaborator.
Attempts(collaborator) ==
    Cardinality({i \in DOMAIN last.calls : last.calls[i] = collaborator})

\* C27: within one start_interview or process_response call the question
\* generation, the answer evaluation and the final decision are each
\* requested at most once, also when the request failed.
C27_NoSecondAttempt ==
    \A collaborator \in {"quecraft", "reviewer", "recruiter"} :
        Attempts(collaborator) <= 1

\* A process_response whose refill request failed and whose request for the
\* final decision failed as well: each was sent once.
C27_BothRequestsFailedOnce ==
    /\ last.op = "process_response"
    /\ last.gen = "failed"
    /\ last.recruiter = "call_failed"
    /\ Attempts("quecraft") = 1
    /\ Attempts("recruiter") = 1
    /\ Attempts("reviewer") = 1

\* C28: a process_response call that returns success = false leaves
\* assessment_results, the candidate profile, the cursor and the question
\* queue as they were before the call, wherever in the call the failure
\* happened.
C28_FailedResponseRecordsNothing ==
    [][ (Called("process_response") /\ ~last'.success) =>
            UNCHANGED <<assessment_results, candidate_profile,
                        current_question_index, current_questions>>
      ]_vars

\* The call whose result is r asked for no follow-up and every collaborator
\* it called delivered: the evaluation, the refill, the presentation and the
\* final decision each returned success.
Delivered(r) ==
    /\ ~InSeq("clarify", r.calls)
    /\ r.gen # "failed"
    /\ r.recruiter \in {"none", "ok"}
    /\ r.error \notin {"Failed to evaluate response", "Failed to present next question"}

\* C30: when no evaluation asks for a follow-up and no collaborator call
\* fails, a session reaches completed within max(max_questions, 4)
\* process_response calls; until then every call leaves the session
\* in_progress with the cursor on a question of the queue.
C30_SessionAdvancesToCompletion ==
    [][ (Ran("process_response") /\ Delivered(last')) =>
            \/ interview_state' = "completed"
            \/ /\ interview_state' = "in_progress"
               /\ current_question_index' < Len(current_questions')
      ]_vars

\* C29: in every reachable state the number of assessment records is at most
\* max(max_questions, 4), whatever the evaluations were, follow-ups included.
C29_RecordsWithinLimit ==
    Len(assessment_results) <=
        IF MaxQuestionsOf(candidate_data) > 4 THEN MaxQuestionsOf(candidate_data) ELSE 4

\* The records are all answers scored 90 without a follow-up, each on a
\* skill of its own.
AllNinetyOnDistinctSkills(results) ==
    /\ \A i \in DOMAIN results :
            results[i].evaluation =
                [has_score |-> TRUE, score |-> Num(90), follow_up_needed |-> FALSE]
    /\ Cardinality({results[i].question.skill_target : i \in DOMAIN results})
            = Len(results)

\* C21: in a session started with max_questions = 5 whose answers all score
\* 90 on distinct skills without a follow-up, the answers before the fifth
\* leave the session in_progress and the fifth completes it, the stop rule
\* being the maximum question limit; preferred_difficulty is then Hard, the
\* five skills are strengths and there is no weakness.
C21_FiveStrongAnswersComplete ==
    [][ (/\ Ran("process_response")
         /\ Delivered(last')
         /\ candidate_data.present /\ candidate_data.max_questions = 5
         /\ Len(assessment_results') = Len(assessment_results) + 1
         /\ AllNinetyOnDistinctSkills(assessment_results')) =>
            IF Len(assessment_results') = 5
            THEN /\ interview_state' = "completed"
                 /\ last'.success /\ last'.interview_complete
                 /\ ShouldContinue(assessment_results', MaxQuestionsOf(candidate_data'),
                                   excel_skills_tested').reason
                        = "Reached maximum question limit"
                 /\ candidate_profile'.preferred_difficulty = "Hard"
                 /\ \A i \in DOMAIN assessment_results' :
                        InSeq(assessment_results'[i].question.skill_target,
                              candidate_profile'.strengths)
                 /\ Len(candidate_profile'.strengths) = 5
                 /\ candidate_profile'.weaknesses = <<>>
            ELSE /\ Len(assessment_results') < 5
                 /\ interview_state' = "in_progress"
                 /\ ~last'.interview_complete
      ]_vars

\* The fifth answer of such a session has just completed it.
C21_CompletedOnFifthRecord ==
    /\ last.op = "process_response"
    /\ last.interview_complete
    /\ interview_state = "completed"
    /\ candidate_data.max_questions = 5
    /\ Len(assessment_results) = 5
    /\ AllNinetyOnDistinctSkills(assessment_results)
    /\ Cardinality(excel_skills_tested) = 5
    /\ Len(trajectory_decisions) = 2

====
